---- MODULE Spec2Model ----
(***************************************************************************)
(* Model of the Monte Carlo photon-transport simulator                     *)
(* (src/monte_carlo.py, class MonteCarloSimulator), of the customer store  *)
(* and key index of the billing module (src/stripe_billing.py) and of the  *)
(* rate limiter (src/rate_limiter.py).  The three do not share state: each *)
(* has its own next-state relation and specification (Spec, SpecBilling,   *)
(* SpecRate).  SpecDepth applies the end of run to every depth profile,    *)
(* SpecKeys is the billing module without repeated demo customers, and     *)
(* SpecRace is the rate limiter with calls interleaved at their store      *)
(* operations.                                                             *)
(*                                                                         *)
(* Numbers.  Python floats are modelled in fixed point, with every         *)
(* parameter chosen so that the arithmetic of a trace is exact:            *)
(*   - weights and credits in units of 1e-8 (One = 1.0);                   *)
(*   - lengths (x, z, thickness, step) in units of 1e-6 mm, the size of    *)
(*     the boundary nudge of lines 412 and 432, with Inf for float inf;    *)
(*   - direction cosines in fifths (the 3-4-5 triangle keeps the vector    *)
(*     of unit length with uy = 0);                                        *)
(*   - refractive indices in tenths, reflectances in units of 1e-4.        *)
(* np.random.random() is a nondeterministic choice among a few values of   *)
(* [0, 1).                                                                 *)
(***************************************************************************)
EXTENDS Integers, Sequences, FiniteSets, TLC

VARIABLES
    layers,             \* self.layers: sequence of Layer records
    pc,                 \* position of the caller / of run / of _trace_photon
    err,                \* exception raised to the caller of run ("" = none)
    n_photons,          \* argument of the run in progress
    i,                  \* loop variable of run (line 503)
    total_reflected,    \* line 496
    total_transmitted,  \* line 497
    total_absorbed,     \* line 498
    fluence_z,          \* line 493: sums of deposited weight per depth bin
    fluence_rz,         \* line 494: the same per radial bin and depth bin
    scored,             \* history: the deposits of the last trace run scored
    result,             \* the SimulationResult returned by run (NoResult = none)
    x, z, ux, uz,       \* packet position and direction (lines 338-339)
    weight,             \* line 340
    reflected,          \* line 351
    transmitted,        \* line 355
    absorbed,           \* line 354
    deposits,           \* line 343
    steps,              \* iterations of the propagation loop already started
    traced,             \* history: _trace_photon calls made by the run in progress
    capped,             \* history: the trace left the loop by exhausting range(max_steps)
    drewZero,           \* history: the np.random.random() of line 374 returned 0.0
                        \*          in some iteration of the trace
    event,              \* history: what the last loop iteration did before its
                        \*          roulette ("none" before the first iteration)
    evLayer,            \* history: index of the layer that iteration found at z
                        \*          (line 363), 0 for None
    played,             \* history: roulette of that iteration ("none", "survived",
                        \*          "killed")
    wasReset,           \* history: reset was called since the last run
    customers,          \* stripe_billing._customers: customer id -> Customer
    api_keys,           \* stripe_billing._api_keys: api key -> customer id
    tokens,             \* number of secrets.token_hex values drawn so far
    events,             \* number of webhook events handled so far
    billRet,            \* history: the last billing operation and what it returned
    now,                \* the clock (time.time(), datetime.utcnow()), in seconds
    store,              \* InMemoryStore._store of the rate limiter: key -> entry
    rateRet,            \* history: the last check_rate_limit call and its result
    tally,              \* history: the calls answered allowed=True, counted per
                        \*          minute and per day of the clock; the answer
                        \*          to the first call
    calls               \* the check_rate_limit calls in progress on the shared
                        \*          store: caller -> position and local variables

vars == << layers, pc, err, n_photons, i, total_reflected, total_transmitted,
           total_absorbed, fluence_z, fluence_rz, scored, result, x, z, ux, uz, weight, reflected, transmitted,
           absorbed, deposits, steps, traced, capped, drewZero, event, evLayer,
           played, wasReset, customers, api_keys, tokens, events, billRet, now, store,
           rateRet, tally, calls >>

runVars   == << n_photons, i, total_reflected, total_transmitted, total_absorbed,
               fluence_z, fluence_rz, scored >>
traceVars == << x, z, ux, uz, weight, reflected, transmitted, absorbed,
                deposits, steps, capped, drewZero, event, evLayer, played >>
billVars  == << customers, api_keys, tokens, events, billRet >>
rateVars  == << now, store, rateRet, tally, calls >>

\* the state of the simulator, and the state of the services around it
engineVars  == << layers, pc, err, runVars, result, traceVars, traced, wasReset >>
serviceVars == << billVars, rateVars >>

-----------------------------------------------------------------------------
(* Fixed-point units and the constants of the program.                     *)

One == 100000000            \* the float 1.0 of a weight (line 340), in units of 1e-8
Inf == 2000000000           \* np.inf (lines 197, 633)
BigStep == 1000000000       \* the step 1e10 of lines 376 and 384: above every finite
                            \* length of the model, below Inf
NaN == -1                   \* nan as a weight or credit (line 393 with mu_t = 0)
Nudge == 1                  \* 1e-6 mm (lines 412, 432): the unit of length
Thick == 1200               \* a layer thickness of 1200 nudges (1.2e-3 mm)
FUnit == 10000              \* reflectance 1.0, and one past the largest random draw
WEIGHT_THRESHOLD == 10000   \* 1e-4 (line 145) in weight units
ROULETTE_CHANCE == 1000     \* 0.1 (line 146) in units of 1e-4
n_ambient == 10             \* 1.0 (line 152) in tenths

z_max == 1000               \* self.z_max (line 157, set by the caller at
                            \* api_v2.py:747), in units of length
r_max == 400                \* self.r_max (line 158)
n_z == 3                    \* stands for the 200 depth bins of line 155
n_r == 2                    \* stands for the 100 radial bins of line 156
max_steps == 2              \* stands for the 100000 of line 358
MaxLayers == 2              \* add_layer calls per stack
MaxPhotons == 1             \* largest n_photons passed to run

-----------------------------------------------------------------------------
(* Inputs the callers pass.                                                *)

\* optical properties (n in tenths; mu_a, mu_s in thousandths of 1/mm)
Clear    == [n |-> 10, mu_a |-> 0,    mu_s |-> 0]   \* index-matched, mu_t = 0
Absorber == [n |-> 15, mu_a |-> 1000, mu_s |-> 0]   \* mu_s = 0
Turbid   == [n |-> 10, mu_a |-> 999,  mu_s |-> 1]   \* index-matched, albedo 0.001
Milky    == [n |-> 15, mu_a |-> 0,    mu_s |-> 1000] \* mu_a = 0, Fresnel at its faces
Glass    == [n |-> 15, mu_a |-> 0,    mu_s |-> 0]   \* mu_t = 0, Fresnel at its faces

\* (thickness, optical properties) arguments of add_layer
LayerSpecs ==
    { << Inf, Clear >>, << Inf, Absorber >>, << Inf, Milky >>,
      << Thick, Turbid >>, << Thick, Clear >>, << Thick, Glass >>,
      << -Thick, Absorber >> }

\* n_photons arguments of run
PhotonCounts == -1 .. MaxPhotons

\* values of np.random.random() compared with a probability (lines 418, 427,
\* 437, 447, 454), in units of 1e-4: 0.0001 and 0.9999
Draws == { 1, FUnit - 1 }

\* values of -log(np.random.random()) (line 374), as lengths for mu_t = 1:
\* 6e-4 (half of Thick), and inf when the draw is 0.0
NegLogs == { 600, Inf }

\* unit vectors (ux, uz) in fifths that _scatter_direction (lines 283-327) can
\* return: straight down, and upward at 53 degrees from the normal
Directions == { <<0, 5>>, <<4, -3>> }

-----------------------------------------------------------------------------
(* Arithmetic helpers.                                                     *)

Abs(a) == IF a < 0 THEN -a ELSE a

\* w * a / d on non-negative integers, without overflowing 32 bits (a <= d)
MulDiv(w, a, d) == (w \div d) * a + ((w % d) * a) \div d

\* float addition of lengths: inf absorbs
AddLen(a, b) == IF a >= Inf \/ b >= Inf THEN Inf ELSE a + b

RECURSIVE SqrtBetween(_, _, _)
SqrtBetween(v, lo, hi) ==
    IF lo >= hi THEN lo
    ELSE LET mid == (lo + hi + 1) \div 2
         IN  IF mid * mid <= v THEN SqrtBetween(v, mid, hi)
             ELSE SqrtBetween(v, lo, mid - 1)

\* np.sqrt on fixed-point integers (floor)
ISqrt(v) == SqrtBetween(v, 0, 46340)

-----------------------------------------------------------------------------
(* Layer (lines 40-60) and the layer stack.                                *)

mu_t(layer) == layer.mu_a + layer.mu_s

\* add_layer as it would be if it stacked the new layer on the previous layer's
\* top instead of its bottom
NewLayerOnTop(stack, thickness, mat) ==
    LET z_top == IF Len(stack) = 0 THEN 0 ELSE stack[Len(stack)].z_top
        z_bottom == IF thickness < Inf THEN AddLen(z_top, thickness) ELSE Inf
    IN  [ thickness |-> thickness, n |-> mat.n, mu_a |-> mat.mu_a,
          mu_s |-> mat.mu_s, z_top |-> z_top, z_bottom |-> z_bottom ]

\* the Layer that add_layer builds and appends (lines 191-209)
NewLayer(stack, thickness, mat) ==
    LET z_top == IF Len(stack) = 0 THEN 0 ELSE stack[Len(stack)].z_bottom
        z_bottom == IF thickness < Inf THEN AddLen(z_top, thickness) ELSE Inf
    IN  [ thickness |-> thickness, n |-> mat.n, mu_a |-> mat.mu_a,
          mu_s |-> mat.mu_s, z_top |-> z_top, z_bottom |-> z_bottom ]

\* _get_layer_at_z: index of the first layer with z_top <= z < z_bottom, 0 for None
LayerOwns(layer, zz) == layer.z_top <= zz /\ zz < layer.z_bottom

get_layer_at_z(zz) ==
    IF \E k \in 1..Len(layers) : LayerOwns(layers[k], zz)
    THEN CHOOSE k \in 1..Len(layers) :
            /\ LayerOwns(layers[k], zz)
            /\ \A j \in 1..(k - 1) : ~LayerOwns(layers[j], zz)
    ELSE 0

-----------------------------------------------------------------------------
(* _fresnel_reflectance (lines 248-281).  n1, n2 in tenths, cos_theta1 in  *)
(* fifths; the result in units of 1e-4.  Intermediate sines and cosines    *)
(* are carried in thousandths.                                             *)

\* the reflectance as it would be if total internal reflection (lines 267-271)
\* let the packet through
FresnelWithoutTotalReflection(n1, n2, cos5) ==
    IF n1 = n2 THEN 0
    ELSE LET sin5 == ISqrt(25 - cos5 * cos5)
         IN  IF n1 * sin5 > n2 * 5 THEN 0
             ELSE LET cos1 == 200 * cos5
                      sin2 == (200 * n1 * sin5) \div n2
                      cos2 == ISqrt(1000000 - sin2 * sin2)
                      rs_n == Abs(n1 * cos1 - n2 * cos2)
                      rs_d == n1 * cos1 + n2 * cos2
                      rp_n == Abs(n1 * cos2 - n2 * cos1)
                      rp_d == n1 * cos2 + n2 * cos1
                      rs == LET q == (rs_n * 1000) \div rs_d IN (q * q) \div 100
                      rp == LET q == (rp_n * 1000) \div rp_d IN (q * q) \div 100
                  IN  (rs + rp) \div 2

fresnel_reflectance(n1, n2, cos5) ==
    IF n1 = n2 THEN 0
    ELSE LET sin5 == ISqrt(25 - cos5 * cos5)
         IN  IF n1 * sin5 > n2 * 5 THEN FUnit
             ELSE LET cos1 == 200 * cos5
                      sin2 == (200 * n1 * sin5) \div n2
                      cos2 == ISqrt(1000000 - sin2 * sin2)
                      rs_n == Abs(n1 * cos1 - n2 * cos2)
                      rs_d == n1 * cos1 + n2 * cos2
                      rp_n == Abs(n1 * cos2 - n2 * cos1)
                      rp_d == n1 * cos2 + n2 * cos1
                      rs == LET q == (rs_n * 1000) \div rs_d IN (q * q) \div 100
                      rp == LET q == (rp_n * 1000) \div rp_d IN (q * q) \div 100
                  IN  (rs + rp) \div 2

-----------------------------------------------------------------------------
(* One iteration of the propagation loop of _trace_photon (lines 359-458), *)
(* as a function of the packet p and of the random draws of the iteration. *)
(* p.status is "cont" (next iteration), "break" (left the loop), "raise"   *)
(* (ZeroDivisionError at line 393) or "nan" (line 393 gave nan).           *)

\* weight < 1e-10 (line 360): 1e-10 is a hundredth of the weight unit, so a
\* weight of whole units is below it exactly when it is below one unit
TinyWeight(w) == w < 1

\* a + b and a * c / 5 on lengths, where 1e10 and inf absorb what the model adds
SatAdd(a, b) ==
    IF a >= Inf \/ b >= Inf THEN Inf
    ELSE IF a >= BigStep \/ b >= BigStep THEN BigStep
    ELSE a + b

TimesCos(len, c5) ==
    IF c5 = 0 THEN 0
    ELSE IF len >= BigStep THEN len
    ELSE (len * c5) \div 5

\* step of lines 373-376; ell is -log(np.random.random())
SampleStep(layer, ell) ==
    IF mu_t(layer) > 0
    THEN (IF ell >= Inf THEN Inf ELSE (ell * 1000) \div mu_t(layer))
    ELSE BigStep

\* |boundary - z| along the direction of travel (lines 379-384)
BoundaryGap(layer, zz, uz5) ==
    IF uz5 > 0 THEN (IF layer.z_bottom >= Inf THEN Inf ELSE layer.z_bottom - zz)
    ELSE zz - layer.z_top

\* step < dist_to_boundary (line 386), dist_to_boundary = gap / |uz|
StepBeforeBoundary(step, gap, uz5) ==
    IF uz5 = 0 THEN step < BigStep
    ELSE IF gap >= Inf THEN step < Inf
    ELSE step < BigStep /\ step * Abs(uz5) < gap * 5

\* dist_to_boundary * |ux| (lines 406-407)
LateralToBoundary(gap, ux5, uz5) ==
    IF uz5 = 0 THEN TimesCos(BigStep, ux5)
    ELSE IF gap >= Inf THEN TimesCos(Inf, ux5)
    ELSE (gap * ux5) \div Abs(uz5)

\* weight is a Python float, not a numpy.float64: r_specular was the 0.0 of
\* line 264, not a value computed through np.sqrt (lines 267-281)
PythonWeight == layers[get_layer_at_z(0)].n = n_ambient

\* the interaction as it would be if line 393 deposited the scattered share
\* mu_s / mu_t of the weight instead of the absorbed share
InteractScatterShare(p, layer, step, d) ==
    LET nx == SatAdd(p.x, TimesCos(step, p.ux))
        nz == IF step >= BigStep /\ p.uz # 0 THEN step ELSE p.z + (step * p.uz) \div 5
    IN  IF mu_t(layer) = 0
        THEN IF PythonWeight
             THEN [p EXCEPT !.x = nx, !.z = nz, !.status = "raise", !.event = "interact"]
             ELSE [p EXCEPT !.x = nx, !.z = nz, !.weight = NaN, !.absorbed = NaN,
                            !.deposits = Append(p.deposits, <<nz, Abs(nx), NaN>>),
                            !.ux = d[1], !.uz = d[2], !.status = "nan",
                            !.event = "interact"]
        ELSE LET delta_w == MulDiv(p.weight, layer.mu_s, mu_t(layer))
             IN  [p EXCEPT !.x = nx, !.z = nz,
                           !.weight = p.weight - delta_w,
                           !.absorbed = p.absorbed + delta_w,
                           !.deposits = Append(p.deposits, <<nz, Abs(nx), delta_w>>),
                           !.ux = d[1], !.uz = d[2], !.event = "interact"]

\* lines 386-402: interaction within the layer.  With mu_t = 0 line 393 is
\* weight * 0.0 / 0.0: ZeroDivisionError on a Python float; on a numpy.float64
\* it is nan with a warning: weight and absorbed are nan from there on, and
\* the model follows such a trace only to the end of its loop (status "nan").
Interact(p, layer, step, d) ==
    LET nx == SatAdd(p.x, TimesCos(step, p.ux))
        nz == IF step >= BigStep /\ p.uz # 0 THEN step ELSE p.z + (step * p.uz) \div 5
    IN  IF mu_t(layer) = 0
        THEN IF PythonWeight
             THEN [p EXCEPT !.x = nx, !.z = nz, !.status = "raise", !.event = "interact"]
             ELSE [p EXCEPT !.x = nx, !.z = nz, !.weight = NaN, !.absorbed = NaN,
                            !.deposits = Append(p.deposits, <<nz, Abs(nx), NaN>>),
                            !.ux = d[1], !.uz = d[2], !.status = "nan",
                            !.event = "interact"]
        ELSE LET delta_w == MulDiv(p.weight, layer.mu_a, mu_t(layer))
             IN  [p EXCEPT !.x = nx, !.z = nz,
                           !.weight = p.weight - delta_w,
                           !.absorbed = p.absorbed + delta_w,
                           !.deposits = Append(p.deposits, <<nz, Abs(nx), delta_w>>),
                           !.ux = d[1], !.uz = d[2], !.event = "interact"]

\* the boundary as it would be if a transmission into the neighbour layer kept
\* only the share 1 - r_fresnel of the weight
HitBoundaryKeepsShare(p, layer, gap, u) ==
    LET nx == SatAdd(p.x, LateralToBoundary(gap, p.ux, p.uz))
        nz == IF p.uz > 0 THEN AddLen(p.z, gap)
              ELSE IF p.uz < 0 THEN p.z - gap
              ELSE p.z
        q  == [p EXCEPT !.x = nx, !.z = nz]
    IN  IF p.uz > 0
        THEN LET next_z == AddLen(nz, Nudge)
                 next_layer == get_layer_at_z(next_z)
             IN  IF next_layer = 0
                 THEN \* exiting bottom (lines 415-422)
                      IF u < fresnel_reflectance(layer.n, n_ambient, Abs(p.uz))
                      THEN [q EXCEPT !.uz = -p.uz, !.event = "reflect_bottom"]
                      ELSE [q EXCEPT !.transmitted = p.transmitted + p.weight,
                                     !.status = "break", !.event = "exit_bottom"]
                 ELSE \* lines 424-430
                      IF u < fresnel_reflectance(layer.n, layers[next_layer].n, Abs(p.uz))
                      THEN [q EXCEPT !.uz = -p.uz, !.event = "reflect_down"]
                      ELSE [q EXCEPT !.z = next_z, !.event = "transmit_down",
                                     !.weight = MulDiv(p.weight, FUnit - fresnel_reflectance(
                                         layer.n, layers[next_layer].n, Abs(p.uz)), FUnit)]
        ELSE LET next_z == nz - Nudge
             IN  IF next_z < 0
                 THEN \* exiting top (lines 433-441)
                      IF u < fresnel_reflectance(layer.n, n_ambient, Abs(p.uz))
                      THEN [q EXCEPT !.uz = -p.uz, !.event = "reflect_top"]
                      ELSE [q EXCEPT !.reflected = p.reflected + p.weight,
                                     !.status = "break", !.event = "exit_top"]
                 ELSE \* lines 442-450
                      LET next_layer == get_layer_at_z(next_z)
                      IN  IF next_layer = 0 THEN [q EXCEPT !.event = "stall_up"]
                          ELSE IF u < fresnel_reflectance(layer.n, layers[next_layer].n,
                                                          Abs(p.uz))
                          THEN [q EXCEPT !.uz = -p.uz, !.event = "reflect_up"]
                          ELSE [q EXCEPT !.z = next_z, !.event = "transmit_up",
                                     !.weight = MulDiv(p.weight, FUnit - fresnel_reflectance(
                                         layer.n, layers[next_layer].n, Abs(p.uz)), FUnit)]

\* lines 404-450: the packet reaches the boundary; u is the Fresnel draw
HitBoundary(p, layer, gap, u) ==
    LET nx == SatAdd(p.x, LateralToBoundary(gap, p.ux, p.uz))
        nz == IF p.uz > 0 THEN AddLen(p.z, gap)
              ELSE IF p.uz < 0 THEN p.z - gap
              ELSE p.z
        q  == [p EXCEPT !.x = nx, !.z = nz]
    IN  IF p.uz > 0
        THEN LET next_z == AddLen(nz, Nudge)
                 next_layer == get_layer_at_z(next_z)
             IN  IF next_layer = 0
                 THEN \* exiting bottom (lines 415-422)
                      IF u < fresnel_reflectance(layer.n, n_ambient, Abs(p.uz))
                      THEN [q EXCEPT !.uz = -p.uz, !.event = "reflect_bottom"]
                      ELSE [q EXCEPT !.transmitted = p.transmitted + p.weight,
                                     !.status = "break", !.event = "exit_bottom"]
                 ELSE \* lines 424-430
                      IF u < fresnel_reflectance(layer.n, layers[next_layer].n, Abs(p.uz))
                      THEN [q EXCEPT !.uz = -p.uz, !.event = "reflect_down"]
                      ELSE [q EXCEPT !.z = next_z, !.event = "transmit_down"]
        ELSE LET next_z == nz - Nudge
             IN  IF next_z < 0
                 THEN \* exiting top (lines 433-441)
                      IF u < fresnel_reflectance(layer.n, n_ambient, Abs(p.uz))
                      THEN [q EXCEPT !.uz = -p.uz, !.event = "reflect_top"]
                      ELSE [q EXCEPT !.reflected = p.reflected + p.weight,
                                     !.status = "break", !.event = "exit_top"]
                 ELSE \* lines 442-450
                      LET next_layer == get_layer_at_z(next_z)
                      IN  IF next_layer = 0 THEN [q EXCEPT !.event = "stall_up"]
                          ELSE IF u < fresnel_reflectance(layer.n, layers[next_layer].n,
                                                          Abs(p.uz))
                          THEN [q EXCEPT !.uz = -p.uz, !.event = "reflect_up"]
                          ELSE [q EXCEPT !.z = next_z, !.event = "transmit_up"]

\* the roulette as it would be if it were played whatever the weight
RouletteAlways(p, u) ==
    IF p.status # "cont" THEN p
    ELSE IF u < ROULETTE_CHANCE
         THEN [p EXCEPT !.weight = MulDiv(p.weight, FUnit, ROULETTE_CHANCE),
                        !.played = "survived"]
         ELSE [p EXCEPT !.absorbed = p.absorbed + p.weight, !.status = "break",
                        !.played = "killed"]

\* lines 452-458: Russian roulette; u is the draw of line 454
Roulette(p, u) ==
    IF p.status # "cont" \/ ~(p.weight < WEIGHT_THRESHOLD) THEN p
    ELSE IF u < ROULETTE_CHANCE
         THEN [p EXCEPT !.weight = MulDiv(p.weight, FUnit, ROULETTE_CHANCE),
                        !.played = "survived"]
         ELSE [p EXCEPT !.absorbed = p.absorbed + p.weight, !.status = "break",
                        !.played = "killed"]

\* lines 360-450: the body of the loop before the roulette
Propagate(p, ell, d, u) ==
    IF TinyWeight(p.weight) THEN [p EXCEPT !.status = "break", !.event = "tiny"]
    ELSE LET k == get_layer_at_z(p.z)
             q == [p EXCEPT !.evLayer = k]
         IN  IF k = 0
             THEN \* escaped (lines 364-370)
                  IF p.uz < 0
                  THEN [q EXCEPT !.reflected = p.reflected + p.weight,
                                 !.status = "break", !.event = "escape_up"]
                  ELSE [q EXCEPT !.transmitted = p.transmitted + p.weight,
                                 !.status = "break", !.event = "escape_down"]
             ELSE LET layer == layers[k]
                      step == SampleStep(layer, ell)
                      gap == BoundaryGap(layer, p.z, p.uz)
                  IN  IF StepBeforeBoundary(step, gap, p.uz)
                      THEN Interact(q, layer, step, d)
                      ELSE HitBoundary(q, layer, gap, u)

LoopBody(p, ell, d, u1, u2) == Roulette(Propagate(p, ell, d, u1), u2)

-----------------------------------------------------------------------------
(* Scoring of the deposits of one trace (lines 516-528) and the derived    *)
(* metrics (lines 535-573).  fluence_z and fluence_rz hold the sums of     *)
(* deposited weight; the divisions by n_photons * dz and by the ring       *)
(* volume (lines 536-545) scale every depth bin by the same positive       *)
(* factor and are left out.                                                *)

\* int(a / b) of Python for b > 0: truncation towards zero
IntTrunc(a, b) == IF a >= 0 THEN a \div b ELSE -((-a) \div b)

\* iz = int(z_dep / dz) with dz = z_max / n_z (lines 491, 520); a depth of the
\* size of 1e10 is past every bin
DepthBin(z_dep) == IF z_dep >= BigStep THEN n_z ELSE IntTrunc(z_dep * n_z, z_max)

\* ir = int(r_dep / dr) with dr = r_max / n_r (lines 492, 521)
RadialBin(r_dep) == IF r_dep >= BigStep THEN n_r ELSE IntTrunc(r_dep * n_r, r_max)

\* a + b of two floats, nan when one of them is nan
NanAdd(a, b) == IF a = NaN \/ b = NaN THEN NaN ELSE a + b

ZeroFluenceZ == [ k \in 1..n_z |-> 0 ]
ZeroFluenceRZ == [ j \in 1..n_r |-> [ k \in 1..n_z |-> 0 ] ]

\* the scoring as it would be if a depth past the last bin were clamped into it
ScoreDepositClamped(f, dep) ==
    LET deep == DepthBin(dep[1])
        iz == IF deep >= n_z THEN n_z - 1 ELSE deep
        ir == RadialBin(dep[2])
    IN  IF 0 <= iz /\ iz < n_z
        THEN [ z  |-> [f.z EXCEPT ![iz + 1] = NanAdd(@, dep[3])],
               rz |-> IF 0 <= ir /\ ir < n_r
                      THEN [f.rz EXCEPT ![ir + 1][iz + 1] = NanAdd(@, dep[3])]
                      ELSE f.rz ]
        ELSE f

\* lines 518-528 for one deposit dep = (z_dep, r_dep, w_dep); f = [z, rz]
ScoreDeposit(f, dep) ==
    LET iz == DepthBin(dep[1])
        ir == RadialBin(dep[2])
    IN  IF 0 <= iz /\ iz < n_z
        THEN [ z  |-> [f.z EXCEPT ![iz + 1] = NanAdd(@, dep[3])],
               rz |-> IF 0 <= ir /\ ir < n_r
                      THEN [f.rz EXCEPT ![ir + 1][iz + 1] = NanAdd(@, dep[3])]
                      ELSE f.rz ]
        ELSE f

\* the loop of line 517 over the deposits of a trace
RECURSIVE ScoreDeposits(_, _)
ScoreDeposits(f, deps) ==
    IF deps = << >> THEN f
    ELSE ScoreDeposits(ScoreDeposit(f, Head(deps)), Tail(deps))

\* f < f0 * num / den exactly, for non-negative f and f0
BelowShare(f, f0, num, den) ==
    LET whole == MulDiv(f0, num, den)
        exact == (((f0 % den) * num) % den) = 0
    IN  IF exact THEN f < whole ELSE f <= whole

\* z_centers[k] (line 548) for the k-th bin, k = 1..n_z
ZCenter(k) == ((2 * k - 1) * z_max) \div (2 * n_z)

\* the depth as it would be if the deepest bin below the threshold were taken
PenetrationDepthDeepest(fz, num) ==
    IF fz[1] > 0
    THEN LET idx == { k \in 1..n_z : fz[k] # NaN /\ BelowShare(fz[k], fz[1], 1000, num) }
         IN  IF idx # {} THEN ZCenter(CHOOSE k \in idx : \A j \in idx : k >= j)
             ELSE z_max
    ELSE 0

\* lines 551-562; e is taken as num / 1000 (2718 for e, 7389 for e^2); a nan
\* bin compares False with every threshold
PenetrationDepth(fz, num) ==
    IF fz[1] > 0
    THEN LET idx == { k \in 1..n_z : fz[k] # NaN /\ BelowShare(fz[k], fz[1], 1000, num) }
         IN  IF idx # {} THEN ZCenter(CHOOSE k \in idx : \A j \in idx : k <= j)
             ELSE z_max
    ELSE 0

\* lines 564-573: 0.0 unless more than two bins are positive; the value
\* np.polyfit gives is not modelled
EffectiveAttenuation(fz) ==
    IF Cardinality({ k \in 1..n_z : fz[k] > 0 }) > 2 THEN "polyfit" ELSE 0

-----------------------------------------------------------------------------
(* State machine.  pc: "idle" (the caller holds the simulator), "run" (run *)
(* is at the head of its photon loop, line 503), "trace" (_trace_photon is *)
(* at the head of its propagation loop, line 359), "ret" (_trace_photon    *)
(* has returned to line 510), "done" (run returned), "error" (run raised), *)
(* "nan" (the trace goes on with weight = nan; followed no further than    *)
(* the end of its loop).                                                   *)

NoResult == [ returned |-> FALSE ]

\* the threads that may be inside check_rate_limit at the same time
Callers == { 1, 2 }

\* a caller outside check_rate_limit
NoCall ==
    [ at |-> "idle", endpoint_type |-> "general", day_count |-> 0, new_day |-> 0 ]

NoPacket ==
    [ x |-> 0, z |-> 0, ux |-> 0, uz |-> 5, weight |-> 0, reflected |-> 0,
      transmitted |-> 0, absorbed |-> 0, deposits |-> << >>, status |-> "cont",
      event |-> "none", evLayer |-> 0, played |-> "none" ]

Packet ==
    [ x |-> x, z |-> z, ux |-> ux, uz |-> uz, weight |-> weight,
      reflected |-> reflected, transmitted |-> transmitted, absorbed |-> absorbed,
      deposits |-> deposits, status |-> "cont",
      event |-> "none", evLayer |-> 0, played |-> "none" ]

SetPacket(p) ==
    /\ x' = p.x /\ z' = p.z /\ ux' = p.ux /\ uz' = p.uz
    /\ weight' = p.weight /\ reflected' = p.reflected
    /\ transmitted' = p.transmitted /\ absorbed' = p.absorbed
    /\ deposits' = p.deposits
    /\ event' = p.event /\ evLayer' = p.evLayer /\ played' = p.played

Init ==
    /\ layers = << >>                                   \* line 151
    /\ pc = "idle" /\ err = ""
    /\ n_photons = 0 /\ i = 0
    /\ total_reflected = 0 /\ total_transmitted = 0 /\ total_absorbed = 0
    /\ fluence_z = ZeroFluenceZ /\ fluence_rz = ZeroFluenceRZ /\ scored = << >>
    /\ result = NoResult
    /\ x = 0 /\ z = 0 /\ ux = 0 /\ uz = 5 /\ weight = 0
    /\ reflected = 0 /\ transmitted = 0 /\ absorbed = 0 /\ deposits = << >>
    /\ steps = 0 /\ traced = 0 /\ capped = FALSE /\ drewZero = FALSE
    /\ event = "none" /\ evLayer = 0 /\ played = "none"
    /\ wasReset = FALSE
    /\ customers = << >> /\ api_keys = << >>             \* stripe_billing.py 206-207
    /\ tokens = 0 /\ events = 0 /\ billRet = [ op |-> "none" ]
    /\ now = 0 /\ store = << >>                         \* rate_limiter.py 97-98
    /\ rateRet = [ op |-> "none" ]
    /\ tally = [ first |-> "none", minute |-> 0, minute_count |-> 0,
                 day |-> 0, day_count |-> 0, mc_count |-> 0 ]
    /\ calls = [ c \in Callers |-> NoCall ]

\* add_layer (lines 171-209)
add_layer(thickness, mat) ==
    /\ pc = "idle"
    /\ Len(layers) < MaxLayers
    /\ layers' = Append(layers, NewLayer(layers, thickness, mat))
    /\ UNCHANGED << serviceVars, pc, err, runVars, result, traceVars, traced, wasReset >>

AddLayer == \E spec \in LayerSpecs : add_layer(spec[1], spec[2])

\* reset (lines 167-169)
Reset ==
    /\ pc = "idle"
    /\ layers' = << >>
    /\ wasReset' = TRUE
    /\ UNCHANGED << serviceVars, pc, err, runVars, result, traceVars, traced >>

\* run as it would be without the check of lines 482-483
RunRejectsNothing(stack, n) == FALSE

\* the check of run before it starts (lines 482-483): TRUE when run raises
RunRejects(stack, n) == Len(stack) = 0

\* run as it would be if it started from an emptied stack
RunClearsStack(n) ==
    /\ pc = "idle"
    /\ n_photons' = n
    /\ i' = 0 /\ traced' = 0
    /\ total_reflected' = 0 /\ total_transmitted' = 0 /\ total_absorbed' = 0
    /\ fluence_z' = ZeroFluenceZ /\ fluence_rz' = ZeroFluenceRZ /\ scored' = << >>
    /\ result' = NoResult
    /\ IF RunRejects(layers, n)
       THEN pc' = "error" /\ err' = "ValueError"
       ELSE pc' = "run" /\ err' = ""
    /\ wasReset' = FALSE
    /\ layers' = << >>
    /\ UNCHANGED << serviceVars, traceVars >>

\* run, up to the head of its photon loop (lines 482-501)
run(n) ==
    /\ pc = "idle"
    /\ n_photons' = n
    /\ i' = 0 /\ traced' = 0
    /\ total_reflected' = 0 /\ total_transmitted' = 0 /\ total_absorbed' = 0
    /\ fluence_z' = ZeroFluenceZ /\ fluence_rz' = ZeroFluenceRZ /\ scored' = << >>
    /\ result' = NoResult
    /\ IF RunRejects(layers, n)
       THEN pc' = "error" /\ err' = "ValueError"
       ELSE pc' = "run" /\ err' = ""
    /\ wasReset' = FALSE
    /\ UNCHANGED << serviceVars, layers, traceVars >>

Run == \E n \in PhotonCounts : run(n)

\* the launch as it would be if the specular fraction were credited to
\* reflected without being taken from the weight
LaunchKeepsWeight(k) ==
    LET r_specular == fresnel_reflectance(n_ambient, layers[k].n, 5)
    IN  [ NoPacket EXCEPT !.reflected = MulDiv(One, r_specular, FUnit),
                          !.weight = One ]

\* the packet of _trace_photon after the surface reflection (lines 337-355)
Launch(k) ==
    LET r_specular == fresnel_reflectance(n_ambient, layers[k].n, 5)
    IN  [ NoPacket EXCEPT !.reflected = MulDiv(One, r_specular, FUnit),
                          !.weight = MulDiv(One, FUnit - r_specular, FUnit) ]

\* run calls _trace_photon (line 510), which runs up to its loop (lines 337-358)
TraceBegin ==
    /\ pc = "run"
    /\ i < n_photons
    /\ traced' = traced + 1
    /\ steps' = 0 /\ capped' = FALSE /\ drewZero' = FALSE
    /\ LET k == get_layer_at_z(0)
       IN  IF k = 0
           THEN \* lines 347-348: return weight, 0.0, 0.0, []
                /\ SetPacket([NoPacket EXCEPT !.weight = One, !.reflected = One])
                /\ pc' = "ret"
           ELSE /\ SetPacket(Launch(k))
                /\ pc' = "trace"
    /\ UNCHANGED << serviceVars, layers, err, runVars, result, wasReset >>

\* one iteration of the propagation loop (lines 359-458)
TraceStep ==
    /\ pc = "trace"
    /\ steps < max_steps
    /\ steps' = steps + 1
    /\ \E ell \in NegLogs, d \in Directions, u1 \in Draws, u2 \in Draws :
          LET p == LoopBody(Packet, ell, d, u1, u2)
              drawn == /\ ~TinyWeight(weight)
                       /\ get_layer_at_z(z) # 0
                       /\ mu_t(layers[get_layer_at_z(z)]) > 0
                       /\ ell >= Inf
          IN  /\ SetPacket(p)
              /\ drewZero' = (drewZero \/ drawn)
              /\ IF p.status = "raise"
                 THEN pc' = "error" /\ err' = "ZeroDivisionError"
                 ELSE /\ pc' = CASE p.status = "break" -> "ret"
                                 [] p.status = "nan" -> "nan"
                                 [] OTHER -> "trace"
                      /\ err' = err
    /\ UNCHANGED << serviceVars, layers, runVars, result, traced, capped, wasReset >>

\* range(max_steps) is exhausted: the loop ends and line 460 returns, also
\* when the last iteration has left weight and absorbed nan
TraceExhaust ==
    /\ pc \in { "trace", "nan" }
    /\ steps = max_steps
    /\ capped' = TRUE
    /\ pc' = "ret"
    /\ UNCHANGED << serviceVars, layers, err, runVars, result, x, z, ux, uz, weight, reflected,
                    transmitted, absorbed, deposits, steps, traced, drewZero,
                    event, evLayer, played, wasReset >>

\* run adds the credits of the returned trace and scores its deposits
\* (lines 510-528)
Score ==
    /\ pc = "ret"
    /\ total_reflected' = NanAdd(total_reflected, reflected)
    /\ total_transmitted' = NanAdd(total_transmitted, transmitted)
    /\ total_absorbed' = NanAdd(total_absorbed, absorbed)
    /\ LET f == ScoreDeposits([ z |-> fluence_z, rz |-> fluence_rz ], deposits)
       IN  fluence_z' = f.z /\ fluence_rz' = f.rz
    /\ scored' = deposits
    /\ i' = i + 1
    /\ pc' = "run"
    /\ SetPacket(NoPacket)
    /\ steps' = 0 /\ capped' = FALSE /\ drewZero' = FALSE
    /\ UNCHANGED << serviceVars, layers, err, n_photons, result, traced, wasReset >>

\* run after its photon loop (lines 530-607).  The three fractions are kept as
\* the running sums over n_photons; dividing by n_photons = 0 raises.  The
\* result has the fields of SimulationResult (lines 63-90) the properties use.
Finish ==
    /\ pc = "run"
    /\ ~(i < n_photons)
    /\ IF n_photons = 0
       THEN /\ pc' = "error" /\ err' = "ZeroDivisionError"
            /\ result' = result
       ELSE /\ pc' = "done" /\ err' = err
            /\ result' = [ returned |-> TRUE, n_photons |-> n_photons,
                           reflectance |-> total_reflected,
                           transmittance |-> total_transmitted,
                           absorption_fraction |-> total_absorbed,
                           fluence_z |-> fluence_z,
                           penetration_depth_1e |-> PenetrationDepth(fluence_z, 2718),
                           penetration_depth_1e2 |-> PenetrationDepth(fluence_z, 7389),
                           effective_attenuation |-> EffectiveAttenuation(fluence_z) ]
    /\ UNCHANGED << serviceVars, layers, runVars, traceVars, traced, wasReset >>

\* the caller takes the result or the exception and holds the simulator again
Again ==
    /\ pc \in { "done", "error" }
    /\ pc' = "idle" /\ err' = ""
    /\ n_photons' = 0 /\ i' = 0 /\ traced' = 0
    /\ total_reflected' = 0 /\ total_transmitted' = 0 /\ total_absorbed' = 0
    /\ fluence_z' = ZeroFluenceZ /\ fluence_rz' = ZeroFluenceRZ /\ scored' = << >>
    /\ result' = NoResult
    /\ SetPacket(NoPacket)
    /\ steps' = 0 /\ capped' = FALSE /\ drewZero' = FALSE
    /\ UNCHANGED << serviceVars, layers, wasReset >>

Next ==
    \/ AddLayer
    \/ Reset
    \/ Run
    \/ TraceBegin
    \/ TraceStep
    \/ TraceExhaust
    \/ Score
    \/ Finish
    \/ Again

Spec == Init /\ [][Next]_vars

-----------------------------------------------------------------------------
(* The end of run (lines 530-607) on every depth profile: the run stands    *)
(* after its photon loop with a profile drawn from Levels in each bin.       *)

\* the fluence a depth bin may hold when the photon loop ends
Levels == { 0, One \div 10, (3 * One) \div 10, One, NaN }

Profiles == [ 1..n_z -> Levels ]

\* the sum of the bins of a profile, nan when a bin is nan
RECURSIVE ProfileTotal(_, _)
ProfileTotal(fz, k) ==
    IF k = 0 THEN 0
    ELSE IF fz[k] = NaN \/ ProfileTotal(fz, k - 1) = NaN THEN NaN
    ELSE fz[k] + ProfileTotal(fz, k - 1)

InitDepth ==
    /\ layers = << NewLayer(<< >>, Thick, Turbid) >>
    /\ pc = "run" /\ err = ""
    /\ n_photons = n_z /\ i = n_z
    /\ fluence_z \in Profiles
    /\ total_reflected = 0 /\ total_transmitted = 0
    /\ total_absorbed = ProfileTotal(fluence_z, n_z)
    /\ fluence_rz = ZeroFluenceRZ /\ scored = << >>
    /\ result = NoResult
    /\ x = 0 /\ z = 0 /\ ux = 0 /\ uz = 5 /\ weight = 0
    /\ reflected = 0 /\ transmitted = 0 /\ absorbed = 0 /\ deposits = << >>
    /\ steps = 0 /\ traced = n_z /\ capped = FALSE /\ drewZero = FALSE
    /\ event = "none" /\ evLayer = 0 /\ played = "none"
    /\ wasReset = FALSE
    /\ customers = << >> /\ api_keys = << >>
    /\ tokens = 0 /\ events = 0 /\ billRet = [ op |-> "none" ]
    /\ now = 0 /\ store = << >>
    /\ rateRet = [ op |-> "none" ]
    /\ tally = [ first |-> "none", minute |-> 0, minute_count |-> 0,
                 day |-> 0, day_count |-> 0, mc_count |-> 0 ]
    /\ calls = [ c \in Callers |-> NoCall ]

NextDepth == Finish

SpecDepth == InitDepth /\ [][NextDepth]_vars

-----------------------------------------------------------------------------
(* Billing (src/stripe_billing.py).  The customer store and the key index  *)
(* are the module-level dicts _customers and _api_keys.  A Python string   *)
(* that the code builds from a prefix and a digest is the triple           *)
(* << prefix, text, number >>: secrets.token_hex returns a value never     *)
(* returned before, << "", k >> for the k-th draw, and the md5 digest of   *)
(* an e-mail address is << address, 0 >>, one digest per address.  The     *)
(* Stripe calls and the e-mails are left out: their failures are caught    *)
(* (lines 261-275, 291-298) and they change neither dict.                  *)

MaxTokens == 3
MaxEvents == 2

\* d[key] = value of a Python dict
DictSet(d, key, value) ==
    [ k \in DOMAIN d \cup { key } |-> IF k = key THEN value ELSE d[k] ]

\* del d[key]
DictDel(d, key) == [ k \in DOMAIN d \ { key } |-> d[k] ]

SubscriptionPlan == { "spark", "photon", "beam", "laser", "fusion" }

PLAN_FEATURES ==
    [ spark  |-> [ requests_per_day |-> 100,     monte_carlo_per_day |-> 10 ],
      photon |-> [ requests_per_day |-> 2000,    monte_carlo_per_day |-> 100 ],
      beam   |-> [ requests_per_day |-> 15000,   monte_carlo_per_day |-> 1000 ],
      laser  |-> [ requests_per_day |-> 100000,  monte_carlo_per_day |-> 10000 ],
      fusion |-> [ requests_per_day |-> 1000000, monte_carlo_per_day |-> 100000 ] ]

token_hex(k) == << "", k >>
md5(email)   == << email, 0 >>
Cat(prefix, digest) == << prefix, digest[1], digest[2] >>

None == [ none |-> TRUE ]

\* the dataclass Customer (lines 183-194), without created_at and trial_end
Customer(id, email, plan, api_key, status) ==
    [ id |-> id, email |-> email, plan |-> plan, api_key |-> api_key,
      subscription_id |-> "None", subscription_status |-> status ]

Emails == { "user@example.com" }

\* the values the metadata of a webhook event carries as "plan"
EventPlans == { "spark", "photon", "bogus" }

EventStatuses == { "past_due" }

demo_customers ==
    << << "demo@photonpath.io",   "spark",  "demo_key_12345" >>,
       << "photon@photonpath.io", "photon", "sk_photon_demo" >>,
       << "beam@photonpath.io",   "beam",   "sk_beam_demo_key" >>,
       << "laser@photonpath.io",  "laser",  "sk_laser_demo_key" >>,
       << "fusion@photonpath.io", "fusion", "sk_fusion_demo_key" >> >>

DemoKey(j) == << demo_customers[j][3], "", 0 >>
DemoId(j)  == Cat("cust_", md5(demo_customers[j][1]))

\* the customer ids a webhook event may name: every stored one and one unknown
EventCustomers == DOMAIN customers \cup { Cat("cust_", token_hex(0)) }

\* get_customer_by_api_key (lines 309-314)
get_customer_by_api_key(api_key) ==
    IF api_key \in DOMAIN api_keys
    THEN LET customer_id == api_keys[api_key]
         IN  IF customer_id \in DOMAIN customers THEN customers[customer_id] ELSE None
    ELSE None

\* validate_api_key (lines 617-635)
validate_api_key(api_key) ==
    LET customer == get_customer_by_api_key(api_key)
    IN  IF customer = None
        THEN None
        ELSE [ customer_id |-> customer.id, email |-> customer.email,
               plan |-> customer.plan,
               subscription_status |-> customer.subscription_status,
               limits |-> PLAN_FEATURES[customer.plan] ]

\* create_customer (lines 253-300)
create_customer(email) ==
    /\ tokens + 2 <= MaxTokens
    /\ LET customer_id == Cat("cust_", token_hex(tokens + 1))
           api_key     == Cat("pk_", token_hex(tokens + 2))
           customer    == Customer(customer_id, email, "spark", api_key, "inactive")
       IN  /\ customers' = DictSet(customers, customer_id, customer)
           /\ api_keys' = DictSet(api_keys, api_key, customer_id)
           /\ billRet' = [ op |-> "create_customer", customer |-> customer ]
    /\ tokens' = tokens + 2
    /\ UNCHANGED << events, engineVars, rateVars >>

CreateCustomer == \E email \in Emails : create_customer(email)

\* the loop of create_demo_customers (lines 665-674), from its j-th tuple on
RECURSIVE DemoLoop(_, _)
DemoLoop(dicts, j) ==
    IF j > Len(demo_customers)
    THEN dicts
    ELSE LET email    == demo_customers[j][1]
             plan     == demo_customers[j][2]
             api_key  == DemoKey(j)
             customer == Customer(DemoId(j), email, plan, api_key,
                                  IF plan # "spark" THEN "active" ELSE "inactive")
         IN  DemoLoop([ customers |-> DictSet(dicts.customers, customer.id, customer),
                        api_keys  |-> DictSet(dicts.api_keys, api_key, customer.id) ],
                      j + 1)

\* create_demo_customers (lines 655-676)
create_demo_customers ==
    /\ LET dicts == DemoLoop([ customers |-> customers, api_keys |-> api_keys ], 1)
       IN  customers' = dicts.customers /\ api_keys' = dicts.api_keys
    /\ billRet' = [ op |-> "create_demo_customers" ]
    /\ UNCHANGED << tokens, events, engineVars, rateVars >>

\* the key rotation as it would be if the old key stayed in the index
RotateKeyKeepsOld(customer_id, old_key, new_key) ==
    DictSet(api_keys, new_key, customer_id)

\* the key rotation of lines 504-511 and 564-569
RotateKey(customer_id, old_key, new_key) ==
    DictSet(IF old_key \in DOMAIN api_keys THEN DictDel(api_keys, old_key) ELSE api_keys,
            new_key, customer_id)

\* handle_webhook (lines 442-485) has verified an event and hands it to its handler
Delivered ==
    /\ events < MaxEvents
    /\ events' = events + 1
    /\ UNCHANGED << engineVars, rateVars >>

\* _handle_checkout_completed (lines 487-533)
handle_checkout_completed(customer_id, plan) ==
    IF customer_id \in DOMAIN customers
    THEN LET customer == customers[customer_id]
             new_plan == IF plan \in SubscriptionPlan THEN plan ELSE customer.plan
             paid     == [ customer EXCEPT !.subscription_id = "sub",
                                           !.subscription_status = "active",
                                           !.plan = new_plan ]
         IN  IF new_plan # "spark"
             THEN LET api_key == Cat("sk_", token_hex(tokens + 1))
                  IN  /\ tokens + 1 <= MaxTokens
                      /\ customers' = DictSet(customers, customer_id,
                                              [ paid EXCEPT !.api_key = api_key ])
                      /\ api_keys' = RotateKey(customer_id, customer.api_key, api_key)
                      /\ tokens' = tokens + 1
                      /\ billRet' = [ op |-> "checkout.session.completed",
                                      success |-> TRUE, api_key |-> api_key ]
             ELSE /\ customers' = DictSet(customers, customer_id, paid)
                  /\ billRet' = [ op |-> "checkout.session.completed",
                                  success |-> TRUE, api_key |-> customer.api_key ]
                  /\ UNCHANGED << api_keys, tokens >>
    ELSE /\ billRet' = [ op |-> "checkout.session.completed", success |-> FALSE ]
         /\ UNCHANGED << customers, api_keys, tokens >>

CheckoutCompleted ==
    \E customer_id \in EventCustomers, plan \in EventPlans :
        /\ handle_checkout_completed(customer_id, plan)
        /\ Delivered

\* _handle_subscription_updated (lines 535-551)
handle_subscription_updated(customer_id, status) ==
    /\ IF customer_id \in DOMAIN customers
       THEN /\ customers' = [ customers EXCEPT ![customer_id].subscription_status = status ]
            /\ billRet' = [ op |-> "customer.subscription.updated", success |-> TRUE ]
       ELSE /\ billRet' = [ op |-> "customer.subscription.updated", success |-> FALSE ]
            /\ UNCHANGED customers
    /\ UNCHANGED << api_keys, tokens >>

SubscriptionUpdated ==
    \E customer_id \in EventCustomers, status \in EventStatuses :
        /\ handle_subscription_updated(customer_id, status)
        /\ Delivered

\* _handle_subscription_deleted (lines 553-586)
handle_subscription_deleted(customer_id) ==
    IF customer_id \in DOMAIN customers
    THEN LET customer == customers[customer_id]
             api_key  == Cat("pk_", token_hex(tokens + 1))
         IN  /\ tokens + 1 <= MaxTokens
             /\ customers' = DictSet(customers, customer_id,
                                     [ customer EXCEPT !.plan = "spark",
                                                       !.subscription_status = "cancelled",
                                                       !.subscription_id = "None",
                                                       !.api_key = api_key ])
             /\ api_keys' = RotateKey(customer_id, customer.api_key, api_key)
             /\ tokens' = tokens + 1
             /\ billRet' = [ op |-> "customer.subscription.deleted", success |-> TRUE ]
    ELSE /\ billRet' = [ op |-> "customer.subscription.deleted", success |-> FALSE ]
         /\ UNCHANGED << customers, api_keys, tokens >>

SubscriptionDeleted ==
    \E customer_id \in EventCustomers :
        /\ handle_subscription_deleted(customer_id)
        /\ Delivered

NextBilling ==
    \/ CreateCustomer
    \/ create_demo_customers
    \/ CheckoutCompleted
    \/ SubscriptionUpdated
    \/ SubscriptionDeleted

SpecBilling == Init /\ [][NextBilling]_vars

\* create_demo_customers as the application calls it, once, when it starts with
\* empty stores (billing_endpoints.py line 87)
DemoAtStartup ==
    /\ customers = << >> /\ api_keys = << >>
    /\ create_demo_customers

\* the service handling create_customer calls and the two key-rotating
\* webhook events
NextKeys ==
    \/ CreateCustomer
    \/ DemoAtStartup
    \/ CheckoutCompleted
    \/ SubscriptionDeleted

SpecKeys == Init /\ [][NextKeys]_vars

-----------------------------------------------------------------------------
(* Rate limiting (src/rate_limiter.py), with the in-memory store of lines  *)
(* 95-133 behind self.redis.  The clock counts seconds; a call reads it    *)
(* once, and it advances between calls only.  The key _get_key builds      *)
(* from the md5 digest of the api key and a window string is the triple    *)
(* << api_key, kind, index >>: "%Y%m%d%H%M" names the minute, "%Y%m%d" the *)
(* day, and the three kinds of window string never coincide.  The limits   *)
(* of a plan are scaled down so that a run of calls reaches each of them,  *)
(* and the clock is followed through the first minutes of a day.           *)

spark_requests_per_minute  == 2
spark_requests_per_day     == 4
spark_monte_carlo_per_day  == 2
ClockStep == 30
MaxSecond == 60
MaxDay    == 1

PLAN_LIMITS ==
    [ spark  |-> [ requests_per_day    |-> spark_requests_per_day,
                   requests_per_minute |-> spark_requests_per_minute,
                   monte_carlo_per_day |-> spark_monte_carlo_per_day ] ]

Plans == DOMAIN PLAN_LIMITS

EndpointTypes == { "general", "monte_carlo" }

ApiKeys == { "test_key_12345" }

MinuteOf(t) == t \div 60
DayOf(t)    == t \div 86400
SecondOf(t) == t % 60

\* _get_key (lines 172-175)
get_key(api_key, kind, index) == << api_key, kind, index >>

\* InMemoryStore.get (lines 100-107): the store it leaves and the value it returns
StoreGet(s, key, t) ==
    IF key \in DOMAIN s
    THEN IF s[key].expires_at > t
         THEN [ store |-> s, found |-> TRUE, value |-> s[key].value ]
         ELSE [ store |-> DictDel(s, key), found |-> FALSE, value |-> 0 ]
    ELSE [ store |-> s, found |-> FALSE, value |-> 0 ]

\* int(self.redis.get(key) or 0)
CountOf(got) == IF got.found THEN got.value ELSE 0

\* incr as it would be if it added 2
StoreIncrByTwo(s, key, t) ==
    LET got       == StoreGet(s, key, t)
        new_value == CountOf(got) + 2
        expires   == IF key \in DOMAIN got.store
                     THEN got.store[key].expires_at
                     ELSE t + 86400
    IN  [ store |-> DictSet(got.store, key, [ value |-> new_value, expires_at |-> expires ]),
          value |-> new_value ]

\* InMemoryStore.incr (lines 115-124)
StoreIncr(s, key, t) ==
    LET got       == StoreGet(s, key, t)
        new_value == CountOf(got) + 1
        expires   == IF key \in DOMAIN got.store
                     THEN got.store[key].expires_at
                     ELSE t + 86400
    IN  [ store |-> DictSet(got.store, key, [ value |-> new_value, expires_at |-> expires ]),
          value |-> new_value ]

\* InMemoryStore.ttl (lines 126-129)
StoreTtl(s, key, t) ==
    IF key \in DOMAIN s
    THEN IF s[key].expires_at - t > 0 THEN s[key].expires_at - t ELSE 0
    ELSE 0

\* InMemoryStore.expire (lines 131-133)
StoreExpire(s, key, seconds, t) ==
    IF key \in DOMAIN s
    THEN [ s EXCEPT ![key].expires_at = t + seconds ]
    ELSE s

\* incr, and expire when the counter is new (lines 244-246, 248-250, 254-256)
IncrAndExpire(s, key, seconds, t) ==
    LET inc == StoreIncr(s, key, t)
    IN  [ store |-> IF inc.value = 1
                    THEN StoreExpire(inc.store, key, seconds, t)
                    ELSE inc.store,
          value |-> inc.value ]

\* the history of the calls answered allowed=True, after one more of them
Tallied(endpoint_type) ==
    [ tally EXCEPT
        !.minute       = MinuteOf(now),
        !.minute_count = IF tally.minute = MinuteOf(now) THEN @ + 1 ELSE 1,
        !.day          = DayOf(now),
        !.day_count    = IF tally.day = DayOf(now) THEN @ + 1 ELSE 1,
        !.mc_count     = (IF tally.day = DayOf(now) THEN @ ELSE 0)
                         + (IF endpoint_type = "monte_carlo" THEN 1 ELSE 0) ]

Answer(answer, api_key, plan, endpoint_type) ==
    /\ rateRet' = [ op |-> "check_rate_limit", api_key |-> api_key, plan |-> plan,
                    endpoint_type |-> endpoint_type, result |-> answer ]
    /\ tally' = [ (IF answer.allowed THEN Tallied(endpoint_type) ELSE tally)
                    EXCEPT !.first = IF @ = "none"
                                     THEN (IF answer.allowed THEN "allowed" ELSE "denied")
                                     ELSE @ ]

\* the per-minute test of line 207, passing a call that has reached the limit
MinuteLimitReachedLate(minute_count, minute_limit) == minute_count > minute_limit

\* the per-minute test of line 207
MinuteLimitReached(minute_count, minute_limit) == minute_count >= minute_limit

\* RateLimiter.check_rate_limit (lines 177-265)
check_rate_limit(api_key, plan, endpoint_type) ==
    LET limits       == PLAN_LIMITS[plan]
        minute_key   == get_key(api_key, "YmdHM", MinuteOf(now))
        got_minute   == StoreGet(store, minute_key, now)
        minute_count == CountOf(got_minute)
        minute_limit == limits.requests_per_minute
        day_key      == get_key(api_key, "Ymd", DayOf(now))
        got_day      == StoreGet(got_minute.store, day_key, now)
        day_count    == CountOf(got_day)
        day_limit    == limits.requests_per_day
        mc_key       == get_key(api_key, "mc_Ymd", DayOf(now))
        got_mc       == StoreGet(got_day.store, mc_key, now)
        mc_count     == CountOf(got_mc)
        mc_limit     == limits.monte_carlo_per_day
        next_minute  == (MinuteOf(now) + 1) * 60
        next_day     == (DayOf(now) + 1) * 86400
    IN  IF MinuteLimitReached(minute_count, minute_limit)
        THEN /\ store' = got_minute.store
             /\ Answer([ allowed |-> FALSE, remaining |-> 0, limit |-> minute_limit,
                         reset_at |-> next_minute,
                         retry_after |-> 60 - SecondOf(now) ],
                       api_key, plan, endpoint_type)
        ELSE IF endpoint_type = "monte_carlo" /\ mc_count >= mc_limit
        THEN /\ store' = got_mc.store
             /\ Answer([ allowed |-> FALSE, remaining |-> 0, limit |-> mc_limit,
                         reset_at |-> next_day,
                         retry_after |-> StoreTtl(got_mc.store, mc_key, now) ],
                       api_key, plan, endpoint_type)
        ELSE IF day_count >= day_limit
        THEN LET s == IF endpoint_type = "monte_carlo" THEN got_mc.store ELSE got_day.store
             IN  /\ store' = s
                 /\ Answer([ allowed |-> FALSE, remaining |-> 0, limit |-> day_limit,
                             reset_at |-> next_day,
                             retry_after |-> StoreTtl(s, day_key, now) ],
                           api_key, plan, endpoint_type)
        ELSE LET s0         == IF endpoint_type = "monte_carlo"
                               THEN got_mc.store ELSE got_day.store
                 new_minute == IncrAndExpire(s0, minute_key, 60, now)
                 new_day    == IncrAndExpire(new_minute.store, day_key, 86400, now)
                 new_mc     == IncrAndExpire(new_day.store, mc_key, 86400, now)
             IN  /\ store' = IF endpoint_type = "monte_carlo"
                             THEN new_mc.store ELSE new_day.store
                 /\ Answer([ allowed |-> TRUE, remaining |-> day_limit - new_day.value,
                             limit |-> day_limit, reset_at |-> next_day ],
                           api_key, plan, endpoint_type)

CheckRateLimit ==
    /\ \E api_key \in ApiKeys, plan \in Plans, endpoint_type \in EndpointTypes :
          check_rate_limit(api_key, plan, endpoint_type)
    /\ UNCHANGED << now, calls, engineVars, billVars >>

\* time passes between two calls
Tick ==
    /\ DayOf(now) < MaxDay
    /\ (now % 86400) + ClockStep <= MaxSecond
    /\ now' = now + ClockStep
    /\ UNCHANGED << store, rateRet, tally, calls, engineVars, billVars >>

\* the rest of the day passes between two calls
Midnight ==
    /\ DayOf(now) < MaxDay
    /\ now' = (DayOf(now) + 1) * 86400
    /\ UNCHANGED << store, rateRet, tally, calls, engineVars, billVars >>

NextRate ==
    \/ CheckRateLimit
    \/ Tick
    \/ Midnight

SpecRate == Init /\ [][NextRate]_vars

-----------------------------------------------------------------------------
(* check_rate_limit called by several threads on one store.  Each action is  *)
(* one store operation of one caller (get, incr, expire, ttl) together with  *)
(* the local code of check_rate_limit up to its next store operation.  The   *)
(* callers use the same API key and plan; the clock stands still while a     *)
(* call is in progress, so a call reads one clock value (line 200).          *)

SharedKey  == "test_key_12345"
SharedPlan == "spark"

minute_key == get_key(SharedKey, "YmdHM", MinuteOf(now))
day_key    == get_key(SharedKey, "Ymd", DayOf(now))
mc_key     == get_key(SharedKey, "mc_Ymd", DayOf(now))

\* the caller goes on inside check_rate_limit
Continues(c, call) ==
    /\ calls' = [ calls EXCEPT ![c] = call ]
    /\ UNCHANGED << now, rateRet, tally, engineVars, billVars >>

\* check_rate_limit returns its RateLimitResult to the caller
Returns(c, answer) ==
    /\ calls' = [ calls EXCEPT ![c] = NoCall ]
    /\ Answer(answer, SharedKey, SharedPlan, calls[c].endpoint_type)
    /\ UNCHANGED << now, engineVars, billVars >>

\* the RateLimitResult of a denied call (lines 208-214, 228-234, 237-243)
Denied(limit, reset_at, retry_after) ==
    [ allowed |-> FALSE, remaining |-> 0, limit |-> limit,
      reset_at |-> reset_at, retry_after |-> retry_after ]

\* the RateLimitResult of an allowed call (lines 260-265)
Allowed(new_day) ==
    [ allowed |-> TRUE,
      remaining |-> PLAN_LIMITS[SharedPlan].requests_per_day - new_day,
      limit |-> PLAN_LIMITS[SharedPlan].requests_per_day,
      reset_at |-> (DayOf(now) + 1) * 86400 ]

\* a thread enters check_rate_limit (lines 199-203)
BeginCall(c) ==
    /\ calls[c].at = "idle"
    /\ \E endpoint_type \in EndpointTypes :
          Continues(c, [ NoCall EXCEPT !.at = "get_minute",
                                       !.endpoint_type = endpoint_type ])
    /\ UNCHANGED store

\* self.redis.get(minute_key) and the per-minute test (lines 204-214)
GetMinute(c) ==
    /\ calls[c].at = "get_minute"
    /\ LET got          == StoreGet(store, minute_key, now)
           minute_limit == PLAN_LIMITS[SharedPlan].requests_per_minute
       IN  /\ store' = got.store
           /\ IF MinuteLimitReached(CountOf(got), minute_limit)
              THEN Returns(c, Denied(minute_limit, (MinuteOf(now) + 1) * 60,
                                     60 - SecondOf(now)))
              ELSE Continues(c, [ calls[c] EXCEPT !.at = "get_day" ])

\* where the call goes once it holds day_count and, for a Monte Carlo call,
\* an mc_count below its limit (lines 236, 246)
AfterCounts(day_count) ==
    IF day_count >= PLAN_LIMITS[SharedPlan].requests_per_day
    THEN "ttl_day" ELSE "incr_minute"

\* self.redis.get(day_key) (lines 217-222)
GetDay(c) ==
    /\ calls[c].at = "get_day"
    /\ LET got       == StoreGet(store, day_key, now)
           day_count == CountOf(got)
       IN  /\ store' = got.store
           /\ Continues(c, [ calls[c] EXCEPT
                               !.day_count = day_count,
                               !.at = IF calls[c].endpoint_type = "monte_carlo"
                                      THEN "get_mc" ELSE AfterCounts(day_count) ])

\* self.redis.get(mc_key) and the Monte Carlo test (lines 223-227, 236)
GetMc(c) ==
    /\ calls[c].at = "get_mc"
    /\ LET got == StoreGet(store, mc_key, now)
       IN  /\ store' = got.store
           /\ Continues(c, [ calls[c] EXCEPT
                               !.at = IF CountOf(got) >= PLAN_LIMITS[SharedPlan].monte_carlo_per_day
                                      THEN "ttl_mc"
                                      ELSE AfterCounts(calls[c].day_count) ])

\* the denial for the Monte Carlo limit, with self.redis.ttl(mc_key) (lines 228-234)
TtlMc(c) ==
    /\ calls[c].at = "ttl_mc"
    /\ Returns(c, Denied(PLAN_LIMITS[SharedPlan].monte_carlo_per_day,
                         (DayOf(now) + 1) * 86400, StoreTtl(store, mc_key, now)))
    /\ UNCHANGED store

\* the denial for the per-day limit, with self.redis.ttl(day_key) (lines 237-243)
TtlDay(c) ==
    /\ calls[c].at = "ttl_day"
    /\ Returns(c, Denied(PLAN_LIMITS[SharedPlan].requests_per_day,
                         (DayOf(now) + 1) * 86400, StoreTtl(store, day_key, now)))
    /\ UNCHANGED store

\* new_minute = self.redis.incr(minute_key) (lines 246-247)
IncrMinute(c) ==
    /\ calls[c].at = "incr_minute"
    /\ LET inc == StoreIncr(store, minute_key, now)
       IN  /\ store' = inc.store
           /\ Continues(c, [ calls[c] EXCEPT
                               !.at = IF inc.value = 1 THEN "expire_minute"
                                                       ELSE "incr_day" ])

\* self.redis.expire(minute_key, 60) (line 248)
ExpireMinute(c) ==
    /\ calls[c].at = "expire_minute"
    /\ store' = StoreExpire(store, minute_key, 60, now)
    /\ Continues(c, [ calls[c] EXCEPT !.at = "incr_day" ])

\* the call after its per-day counter is written: the Monte Carlo counter
\* follows, or the call returns allowed (lines 254, 260-265)
AfterDay(c, new_day) ==
    IF calls[c].endpoint_type = "monte_carlo"
    THEN Continues(c, [ calls[c] EXCEPT !.at = "incr_mc", !.new_day = new_day ])
    ELSE Returns(c, Allowed(new_day))

\* new_day = self.redis.incr(day_key) (lines 250-251)
IncrDay(c) ==
    /\ calls[c].at = "incr_day"
    /\ LET inc == StoreIncr(store, day_key, now)
       IN  /\ store' = inc.store
           /\ IF inc.value = 1
              THEN Continues(c, [ calls[c] EXCEPT !.at = "expire_day",
                                                  !.new_day = inc.value ])
              ELSE AfterDay(c, inc.value)

\* self.redis.expire(day_key, 86400) (line 252)
ExpireDay(c) ==
    /\ calls[c].at = "expire_day"
    /\ store' = StoreExpire(store, day_key, 86400, now)
    /\ AfterDay(c, calls[c].new_day)

\* new_mc = self.redis.incr(mc_key) (lines 255-257)
IncrMc(c) ==
    /\ calls[c].at = "incr_mc"
    /\ LET inc == StoreIncr(store, mc_key, now)
       IN  /\ store' = inc.store
           /\ IF inc.value = 1
              THEN Continues(c, [ calls[c] EXCEPT !.at = "expire_mc" ])
              ELSE Returns(c, Allowed(calls[c].new_day))

\* self.redis.expire(mc_key, 86400) (line 258)
ExpireMc(c) ==
    /\ calls[c].at = "expire_mc"
    /\ store' = StoreExpire(store, mc_key, 86400, now)
    /\ Returns(c, Allowed(calls[c].new_day))

\* no caller is inside check_rate_limit
NoneCalling == \A c \in Callers : calls[c].at = "idle"

\* time passes while no call is in progress
TickBetweenCalls == NoneCalling /\ Tick

NextRace ==
    \/ \E c \in Callers : BeginCall(c)
    \/ \E c \in Callers : GetMinute(c)
    \/ \E c \in Callers : GetDay(c)
    \/ \E c \in Callers : GetMc(c)
    \/ \E c \in Callers : TtlMc(c)
    \/ \E c \in Callers : TtlDay(c)
    \/ \E c \in Callers : IncrMinute(c)
    \/ \E c \in Callers : ExpireMinute(c)
    \/ \E c \in Callers : IncrDay(c)
    \/ \E c \in Callers : ExpireDay(c)
    \/ \E c \in Callers : IncrMc(c)
    \/ \E c \in Callers : ExpireMc(c)
    \/ TickBetweenCalls

SpecRace == Init /\ [][NextRace]_vars

-----------------------------------------------------------------------------
(* Properties.                                                             *)

\* the stack is the single layer add_layer(thickness, mat) builds
OnlyLayer(thickness, mat) == layers = << NewLayer(<< >>, thickness, mat) >>

\* a malformed stack: a layer of non-positive thickness, or a layer after an
\* infinite one (which also covers two infinite layers)
Malformed(stack) ==
    \E k \in 1..Len(stack) :
        \/ stack[k].thickness <= 0
        \/ stack[k].thickness >= Inf /\ k < Len(stack)

\* the credits _trace_photon returns (line 460)
Credits == reflected + transmitted + absorbed

\* C1: every _trace_photon call returns credits with
\* reflected + transmitted + absorbed = 1.0
C1_PacketConservation == pc = "ret" => Credits = One

\* C2: every run that returns with n_photons > 0 has reflectance + transmittance +
\* absorption_fraction = 1, i.e. the three running sums add up to n_photons
C2_RunConservation ==
    (pc = "done" /\ n_photons > 0) =>
        result.reflectance + result.transmittance + result.absorption_fraction
            = n_photons * One

\* C3: no _trace_photon call is ever made on a malformed layer stack
C3_MalformedNeverTraced == Malformed(layers) => traced = 0

\* C4: with an empty layer list, run raises its configuration error before any
\* photon is traced and returns no result
C4_EmptyStackRejected ==
    (Len(layers) = 0 /\ pc # "idle") =>
        /\ pc = "error" /\ err = "ValueError"
        /\ traced = 0
        /\ result = NoResult

C4_Witness ==
    /\ Len(layers) = 0 /\ pc = "error" /\ err = "ValueError"
    /\ n_photons = MaxPhotons

\* C5: run with n_photons <= 0 on a valid stack raises and returns no result
C5_NonPositiveCountRejected ==
    (Len(layers) > 0 /\ ~Malformed(layers) /\ n_photons <= 0
        /\ pc \in { "done", "error" }) =>
        /\ pc = "error"
        /\ result = NoResult

\* C6: a trace that exhausts range(max_steps) is reported to the caller of run
\* as an error; it is not returned as an ordinary result
C6_CapReported == capped => (pc = "error" /\ err # "")

\* C7: the propagation loop runs at most max_steps times, and run(N) with N > 0
\* on a non-empty stack ends by returning after exactly N traces
C7_BoundedAndComplete ==
    /\ steps <= max_steps
    /\ (Len(layers) > 0 /\ n_photons > 0 /\ pc \in { "done", "error" }) =>
           (pc = "done" /\ traced = n_photons)

\* C8: in a single semi-infinite layer with mu_a = mu_s = 0 and n = n_ambient no
\* trace raises, and every trace returns (0, 1.0, 0)
C8_ClearHalfSpace ==
    OnlyLayer(Inf, Clear) =>
        /\ ~(pc = "error" /\ traced > 0)
        /\ pc = "ret" => (reflected = 0 /\ transmitted = One /\ absorbed = 0)

\* C9: in a single semi-infinite layer with mu_s = 0 and mu_a > 0, a trace whose
\* draws are all in (0, 1) returns (r_specular, 0, 1 - r_specular), the absorbed
\* weight being one deposit, made by the first interaction
C9_AbsorbingHalfSpace ==
    \A k \in 1..Len(layers) :
        (/\ Len(layers) = 1 /\ layers[k].thickness >= Inf
         /\ layers[k].mu_s = 0 /\ layers[k].mu_a > 0
         /\ pc = "ret" /\ ~drewZero) =>
            LET r_specular ==
                    MulDiv(One, fresnel_reflectance(n_ambient, layers[k].n, 5), FUnit)
            IN  /\ reflected = r_specular
                /\ transmitted = 0
                /\ absorbed = One - r_specular
                /\ Len(deposits) = 1
                /\ deposits[1][3] = One - r_specular

C9_Witness ==
    /\ OnlyLayer(Inf, Absorber) /\ pc = "ret" /\ ~drewZero
    /\ steps = 2 /\ absorbed = 96000000 /\ reflected = 4000000

\* C10: after add_layer calls with positive thickness, interleaved with reset, the
\* first layer has z_top = 0, every layer has z_bottom = z_top + thickness, and
\* every later layer starts where the one before it ends
C10_Contiguous ==
    (\A k \in 1..Len(layers) : layers[k].thickness > 0) =>
        \A k \in 1..Len(layers) :
            /\ layers[k].z_top = (IF k = 1 THEN 0 ELSE layers[k - 1].z_bottom)
            /\ layers[k].z_bottom = AddLen(layers[k].z_top, layers[k].thickness)

C10_Witness ==
    /\ wasReset /\ Len(layers) = MaxLayers
    /\ \A k \in 1..Len(layers) : layers[k].thickness > 0
    /\ layers[1].z_top = 0 /\ layers[2].z_top = Thick

\* every layer of the stack has positive thickness
AllPositive(stack) == \A k \in 1..Len(stack) : stack[k].thickness > 0

\* depths _get_layer_at_z is asked about: around 0, around the first boundary,
\* deep inside, and the inf that z + inf * uz (line 408) gives
Depths == { -Nudge, 0, Nudge, Thick - Nudge, Thick, Thick + Nudge, BigStep, Inf }

\* C11: on a stack of positive-thickness layers _get_layer_at_z(z) returns the
\* only layer with z_top <= z < z_bottom; a depth on an internal boundary belongs
\* to the deeper layer, every depth at or below the top of an infinite last layer
\* belongs to that layer, and z < 0 or z at or after a finite last bottom belongs
\* to no layer
C11_LayerAtDepth ==
    AllPositive(layers) =>
        \A zz \in Depths :
            LET k == get_layer_at_z(zz)
                last == Len(layers)
            IN  /\ k # 0 =>
                      /\ LayerOwns(layers[k], zz)
                      /\ \A j \in 1..last : LayerOwns(layers[j], zz) => j = k
                /\ \A j \in 1..(last - 1) :
                      (zz = layers[j].z_bottom /\ zz < Inf)
                          => k = j + 1
                /\ (last > 0 /\ layers[last].thickness >= Inf
                        /\ zz >= layers[last].z_top) => k = last
                /\ (zz < 0 \/ (last > 0 /\ layers[last].z_bottom < Inf
                                 /\ zz >= layers[last].z_bottom)) => k = 0

\* C12: throughout every trace the packet weight is in [0, 1], and from one loop
\* iteration to the next it increases only at a roulette survival, where it is
\* multiplied by 1 / ROULETTE_CHANCE
C12_WeightBounded ==
    /\ [](weight \in 0..One)
    /\ [][(pc = "trace" /\ pc' \in { "trace", "ret", "nan" } /\ weight' > weight) =>
              /\ played' = "survived"
              /\ weight' <= MulDiv(weight, FUnit, ROULETTE_CHANCE)]_vars

\* the boundary events of lines 404-450
Reflections == { "reflect_bottom", "reflect_down", "reflect_top", "reflect_up" }
Transmissions == { "transmit_down", "transmit_up" }

\* C18: a Fresnel reflection at a layer boundary negates uz, leaves ux alone, and
\* the layer _get_layer_at_z selects on the next loop iteration is the layer the
\* packet was in before the reflection
C18_ReflectionStaysInLayer ==
    [][(pc = "trace" /\ pc' = "trace" /\ AllPositive(layers)
            /\ event' \in Reflections) =>
          /\ uz' = -uz /\ ux' = ux
          /\ get_layer_at_z(z)' = evLayer']_vars

\* C19: inside the loop, weight is credited to reflected only by a transmission
\* through the top boundary of the stack, and to transmitted only by a
\* transmission through its bottom boundary; a Fresnel reflection at the bottom
\* of the stack credits neither, and the packet is still in the stack at the
\* next iteration
C19_CreditsOnlyAtOuterFaces ==
    [][(pc = "trace" /\ steps' = steps + 1 /\ pc' \in { "trace", "ret" }
            /\ AllPositive(layers) /\ ~Malformed(layers)) =>
          /\ reflected' # reflected => event' = "exit_top"
          /\ transmitted' # transmitted => event' = "exit_bottom"
          /\ event' = "reflect_bottom" =>
                 (reflected' = reflected /\ transmitted' = transmitted)
          /\ event = "reflect_bottom" => event' \notin { "escape_up", "escape_down" }]_vars

\* C20: a transmission across an internal boundary puts the packet in the
\* neighbour layer in the direction of travel and changes neither the weight nor
\* a credit; what the iteration changes besides is its roulette (lines 452-458)
C20_InternalTransmission ==
    [][(pc = "trace" /\ steps' = steps + 1 /\ AllPositive(layers)
            /\ event' \in Transmissions) =>
          /\ get_layer_at_z(z)' =
                 evLayer' + (IF event' = "transmit_down" THEN 1 ELSE -1)
          /\ reflected' = reflected /\ transmitted' = transmitted
          /\ played' = "none" =>
                 (weight' = weight /\ absorbed' = absorbed /\ pc' = "trace")
          /\ played' = "survived" =>
                 /\ weight' = MulDiv(weight, FUnit, ROULETTE_CHANCE)
                 /\ absorbed' = absorbed /\ pc' = "trace"
          /\ played' = "killed" =>
                 (absorbed' = absorbed + weight /\ pc' = "ret")]_vars

C20_Witness ==
    /\ pc = "trace" /\ event = "transmit_down" /\ played = "none"
    /\ evLayer = 1 /\ get_layer_at_z(z) = 2
    /\ layers[1].n # layers[2].n
    /\ weight > 0 /\ absorbed = 0 /\ transmitted = 0

\* number of depth bins of a profile with positive fluence (line 565)
PositiveBins(fz) == Cardinality({ k \in 1..n_z : fz[k] > 0 })

\* C13: when fewer than 3 depth bins have positive fluence, a run of n_photons > 0
\* on a well-formed stack does not raise after its photon loop, reports
\* effective_attenuation = 0 and marks the result as low-confidence
C13_DegenerateFitFlagged ==
    /\ ~(pc = "error" /\ n_photons > 0 /\ i >= n_photons)
    /\ (pc = "done" /\ n_photons > 0 /\ ~Malformed(layers)
            /\ PositiveBins(result.fluence_z) < 3) =>
           /\ result.effective_attenuation = 0
           /\ "low_confidence" \in DOMAIN result
           /\ result.low_confidence

\* the depth the claim C14 gives for a profile: the centre of the first bin below
\* fluence_z[0] / e (e = num / 1000), z_max when no bin is below it
FirstBelow(fz, num) ==
    LET idx == { k \in 1..n_z : BelowShare(fz[k], fz[1], 1000, num) }
    IN  IF idx = {} THEN z_max
        ELSE ZCenter(CHOOSE k \in idx : \A j \in idx : k <= j)

\* C14: after a run of n_photons > 0 on a well-formed stack,
\* penetration_depth_1e is the depth of the first bin whose fluence is below
\* fluence_z[0] / e, and z_max when no bin is below it, also when fluence_z[0]
\* is 0; penetration_depth_1e2 likewise with e^2
C14_PenetrationDepths ==
    (pc = "done" /\ n_photons > 0 /\ ~Malformed(layers)) =>
        /\ result.penetration_depth_1e = FirstBelow(result.fluence_z, 2718)
        /\ result.penetration_depth_1e2 = FirstBelow(result.fluence_z, 7389)

\* C15: run raises nothing while it scores a trace; the bins change as if the
\* deposits at or beyond z_max did not exist, the radius-depth bins as if those
\* at or beyond r_max did not exist either, and the absorbed total still gets
\* the whole absorbed credit of the trace
C15_OutOfRangeDeposits ==
    [][pc = "ret" =>
          LET f == [ z |-> fluence_z, rz |-> fluence_rz ]
              inDepth == SelectSeq(deposits, LAMBDA dep : dep[1] < z_max)
              inBoth == SelectSeq(inDepth, LAMBDA dep : dep[2] < r_max)
          IN  /\ pc' = "run"
              /\ fluence_z' = ScoreDeposits(f, inDepth).z
              /\ fluence_rz' = ScoreDeposits(f, inBoth).rz
              /\ total_absorbed' = NanAdd(total_absorbed, absorbed)]_vars

C15_Witness ==
    /\ pc = "run" /\ i = 1
    /\ \E a \in 1..Len(scored) : scored[a][1] >= z_max /\ scored[a][3] > 0
    /\ fluence_z = ZeroFluenceZ /\ fluence_rz = ZeroFluenceRZ
    /\ total_absorbed > 0

\* the keys the billing module has handed out and one it never has
KnownKeys ==
    DOMAIN api_keys \cup { customers[c].api_key : c \in DOMAIN customers }
                    \cup { Cat("pk_", token_hex(0)) }

Owners(k) == { c \in DOMAIN customers : customers[c].api_key = k }

\* C16: validate_api_key(k) returns the record of the customer that owns k:
\* the key of the customer create_customer has just returned validates with
\* plan "spark"; right after create_demo_customers each of the five demo keys
\* validates to its designated plan; a key that no customer owns returns None.
C16_ValidateReturnsOwner ==
    /\ billRet.op = "create_customer" =>
          LET info == validate_api_key(billRet.customer.api_key)
          IN  info # None /\ info.plan = "spark" /\ info.customer_id = billRet.customer.id
    /\ billRet.op = "create_demo_customers" =>
          \A j \in 1..Len(demo_customers) :
              LET info == validate_api_key(DemoKey(j))
              IN  info # None /\ info.plan = demo_customers[j][2]
    /\ \A k \in KnownKeys :
          LET info == validate_api_key(k)
          IN  IF Owners(k) = {}
              THEN info = None
              ELSE /\ info # None
                   /\ info.customer_id \in Owners(k)
                   /\ info.plan = customers[info.customer_id].plan
                   /\ info.email = customers[info.customer_id].email

C21_InteractionStep ==
    [][(pc = "trace" /\ steps' = steps + 1 /\ AllPositive(layers)
           /\ event' = "interact" /\ mu_t(layers[evLayer']) > 0) =>
          LET layer   == layers[evLayer']
              delta_w == MulDiv(weight, layer.mu_a, mu_t(layer))
              left    == weight - delta_w
          IN  /\ deposits' = Append(deposits, << z', Abs(x'), delta_w >>)
              /\ reflected' = reflected /\ transmitted' = transmitted
              /\ get_layer_at_z(z) = evLayer' /\ get_layer_at_z(z)' = evLayer'
              /\ played' = "none" =>
                    /\ weight' = left /\ absorbed' = absorbed + delta_w
                    /\ weight' + reflected' + transmitted' + absorbed'
                          = weight + reflected + transmitted + absorbed
              /\ played' = "survived" =>
                    /\ weight' = MulDiv(left, FUnit, ROULETTE_CHANCE)
                    /\ absorbed' = absorbed + delta_w
              /\ played' = "killed" => absorbed' = absorbed + delta_w + left]_vars

\* an interaction in the turbid slab has absorbed 0.999 of the weight
C21_Witness ==
    /\ pc = "trace" /\ event = "interact" /\ played = "none"
    /\ mu_t(layers[evLayer]) > 0 /\ layers[evLayer].mu_s > 0
    /\ Len(deposits) = 1 /\ deposits[1][3] = absorbed /\ absorbed > 0
    /\ weight > 0 /\ weight + reflected + transmitted + absorbed = One

\* the events of an iteration that leaves the loop before its roulette
BreakEvents == { "tiny", "escape_up", "escape_down", "exit_bottom", "exit_top" }

\* what the interaction of the iteration just made absorbed (0 for another event)
JustAbsorbed ==
    IF event' = "interact" /\ mu_t(layers[evLayer']) > 0
    THEN MulDiv(weight, layers[evLayer'].mu_a, mu_t(layers[evLayer']))
    ELSE 0

\* C22: Russian roulette is played at the end of a loop iteration exactly when
\* the packet weight is then below WEIGHT_THRESHOLD: the packet survives with
\* its weight multiplied by 1 / ROULETTE_CHANCE, or it is terminated with its
\* whole remaining weight added to absorbed; at or above the threshold the
\* weight is neither boosted nor killed
C22_RouletteBelowThreshold ==
    [][(pc = "trace" /\ steps' = steps + 1 /\ pc' \in { "trace", "ret" }) =>
          LET w == weight - JustAbsorbed
          IN  /\ event' \in BreakEvents => played' = "none"
              /\ event' \notin BreakEvents =>
                    /\ (played' # "none") <=> (w < WEIGHT_THRESHOLD)
                    /\ played' = "none" => (weight' = w /\ pc' = "trace")
                    /\ played' = "survived" =>
                          /\ weight' = MulDiv(w, FUnit, ROULETTE_CHANCE)
                          /\ absorbed' = absorbed + JustAbsorbed
                          /\ pc' = "trace"
                    /\ played' = "killed" =>
                          /\ absorbed' = absorbed + JustAbsorbed + w
                          /\ pc' = "ret"]_vars

\* a packet of weight 1e-6 has survived the roulette with weight 1e-5
C22_Witness ==
    /\ pc = "trace" /\ played = "survived" /\ event = "interact"
    /\ weight > 0 /\ weight < WEIGHT_THRESHOLD
    /\ weight + reflected + transmitted + absorbed > One

\* C23: a packet enters the propagation loop at (0, 0, 0) heading straight
\* down, with the specular fraction r_specular (Fresnel reflectance from the
\* ambient into the first layer at normal incidence) credited to reflected and
\* taken from its weight of 1: reflected + weight = 1, absorbed = transmitted = 0
C23_Launch ==
    (pc = "trace" /\ steps = 0) =>
        LET r_specular == fresnel_reflectance(n_ambient, layers[get_layer_at_z(0)].n, 5)
        IN  /\ x = 0 /\ z = 0 /\ ux = 0 /\ uz = 5
            /\ reflected = MulDiv(One, r_specular, FUnit)
            /\ reflected + weight = One
            /\ absorbed = 0 /\ transmitted = 0 /\ deposits = << >>

\* a packet enters the loop in a layer of index 1.5 with reflected = 0.04
C23_Witness ==
    /\ pc = "trace" /\ steps = 0 /\ traced = 1
    /\ layers[get_layer_at_z(0)].n = 15
    /\ reflected = 4000000 /\ weight = 96000000

\* refractive indices (tenths) and cosines of incidence (fifths) of the model
Indices == { 10, 15 }
Cosines == { 0, 3, 4, 5 }

\* Snell's law gives sin(theta2) = (n1 / n2) * sin(theta1) > 1
TotalReflection(n1, n2, cos5) == n1 * n1 * (25 - cos5 * cos5) > n2 * n2 * 25

\* the medium on the other side of the face a packet in layer k reaches
\* when it travels with direction cosine uz5, in a stack of positive
\* thicknesses: the neighbour layer, the ambient medium past an outer face and
\* below a layer that has no bottom
BeyondFace(k, uz5) ==
    IF uz5 > 0
    THEN (IF k < Len(layers) /\ layers[k].z_bottom < Inf
          THEN layers[k + 1].n ELSE n_ambient)
    ELSE (IF k > 1 THEN layers[k - 1].n ELSE n_ambient)

BoundaryEvents == Reflections \cup Transmissions \cup { "exit_top", "exit_bottom" }

\* C24: _fresnel_reflectance returns exactly 0 for equal indices at every
\* incidence angle, and exactly 1 when Snell's law gives sin(theta2) > 1; so at a
\* boundary between equal indices the packet always transmits, and under total
\* internal reflection it always reflects, whatever the draw
C24_DegenerateFresnel ==
    /\ [](\A n1 \in Indices, n2 \in Indices, c \in Cosines :
            /\ n1 = n2 => fresnel_reflectance(n1, n2, c) = 0
            /\ TotalReflection(n1, n2, c) => fresnel_reflectance(n1, n2, c) = FUnit)
    /\ [][(pc = "trace" /\ steps' = steps + 1 /\ AllPositive(layers)
              /\ event' \in BoundaryEvents) =>
             LET n1 == layers[evLayer'].n
                 n2 == BeyondFace(evLayer', uz)
             IN  /\ n1 = n2 => event' \notin Reflections
                 /\ TotalReflection(n1, n2, Abs(uz)) => event' \in Reflections]_vars

\* a packet travelling upward at 53 degrees in a layer of index 1.5 has been
\* reflected back at the surface
C24_Witness ==
    /\ pc = "trace" /\ event = "reflect_top" /\ AllPositive(layers)
    /\ layers[evLayer].n = 15 /\ TotalReflection(15, n_ambient, 3)
    /\ z = 0 /\ ux = 4 /\ uz = 3 /\ weight > 0

\* C25: neither run nor _trace_photon changes the layer stack: from the call
\* of run until the caller holds the simulator again every step keeps layers,
\* so the next run on the same simulator starts from the identical stack
\* (n_ambient and the binning configuration are never assigned after
\* construction and are fixed definitions here)
C25_StackUnchanged ==
    [][(pc # "idle" \/ pc' # "idle") => layers' = layers]_vars

C25_Witness ==
    /\ pc = "done" /\ result.returned
    /\ Len(layers) = 2 /\ AllPositive(layers)
    /\ traced = 1 /\ scored # << >>

\* C26: with check_rate_limit calls of one API key interleaved at their store
\* operations, the calls answered allowed=True in one minute never exceed
\* requests_per_minute, and in one day never exceed requests_per_day
C26_ConcurrentLimitsHold ==
    /\ tally.minute_count <= PLAN_LIMITS[SharedPlan].requests_per_minute
    /\ tally.day_count <= PLAN_LIMITS[SharedPlan].requests_per_day

\* C27: after create_customer calls and checkout.session.completed /
\* customer.subscription.deleted events the key index and the customer store
\* agree: every customer's current api_key maps to that customer's id, every
\* key of the index is the current key of the customer it maps to, and every
\* other key (one rotated out by an upgrade or a cancellation) validates to
\* None
C27_KeyIndexAgrees ==
    /\ \A c \in DOMAIN customers :
          /\ customers[c].id = c
          /\ customers[c].api_key \in DOMAIN api_keys
          /\ api_keys[customers[c].api_key] = c
    /\ \A k \in DOMAIN api_keys :
          /\ api_keys[k] \in DOMAIN customers
          /\ customers[api_keys[k]].api_key = k
    /\ \A j \in 1..Len(demo_customers) :
          Owners(DemoKey(j)) = { } => validate_api_key(DemoKey(j)) = None
    /\ \A t \in 1..MaxTokens, prefix \in { "pk_", "sk_" } :
          Owners(Cat(prefix, token_hex(t))) = { }
             => validate_api_key(Cat(prefix, token_hex(t))) = None

\* the photon demo customer was upgraded and then cancelled: neither its demo
\* key nor the key of the upgrade validates, its current key does
C27_Witness ==
    /\ billRet.op = "customer.subscription.deleted" /\ billRet.success
    /\ tokens = 2 /\ events = 2
    /\ DemoId(2) \in DOMAIN customers
    /\ customers[DemoId(2)].api_key = Cat("pk_", token_hex(2))
    /\ validate_api_key(customers[DemoId(2)].api_key) # None
    /\ validate_api_key(DemoKey(2)) = None
    /\ validate_api_key(Cat("sk_", token_hex(1))) = None

\* the counter of a key as get reads it at the present clock
CounterAt(s, api_key, kind, index) ==
    CountOf(StoreGet(s, get_key(api_key, kind, index), now))

\* C28: a denied check_rate_limit call leaves the minute, day and Monte Carlo
\* counters of its key unchanged; an allowed call adds exactly 1 to the minute
\* and day counters, exactly 1 to the Monte Carlo counter only for endpoint
\* type "monte_carlo", and reports remaining = day limit - new day count >= 0
C28_CountersFrame ==
    [][(now' = now /\ rateRet'.op = "check_rate_limit") =>
          LET k       == rateRet'.api_key
              r       == rateRet'.result
              limits  == PLAN_LIMITS[rateRet'.plan]
              mc      == IF rateRet'.endpoint_type = "monte_carlo" THEN 1 ELSE 0
              minute0 == CounterAt(store, k, "YmdHM", MinuteOf(now))
              minute1 == CounterAt(store', k, "YmdHM", MinuteOf(now))
              day0    == CounterAt(store, k, "Ymd", DayOf(now))
              day1    == CounterAt(store', k, "Ymd", DayOf(now))
              mc0     == CounterAt(store, k, "mc_Ymd", DayOf(now))
              mc1     == CounterAt(store', k, "mc_Ymd", DayOf(now))
          IN  IF r.allowed
              THEN /\ minute1 = minute0 + 1
                   /\ day1 = day0 + 1
                   /\ mc1 = mc0 + mc
                   /\ r.remaining = limits.requests_per_day - day1
                   /\ r.remaining >= 0
              ELSE /\ minute1 = minute0 /\ day1 = day0 /\ mc1 = mc0
                   /\ \/ minute0 >= limits.requests_per_minute
                      \/ day0 >= limits.requests_per_day
                      \/ mc = 1 /\ mc0 >= limits.monte_carlo_per_day]_vars

\* an allowed Monte Carlo call took the last request of the day: every counter
\* of the key stands where the call left it
C28_Witness ==
    /\ rateRet.op = "check_rate_limit" /\ rateRet.result.allowed
    /\ rateRet.endpoint_type = "monte_carlo"
    /\ rateRet.result.remaining = 0
    /\ CounterAt(store, rateRet.api_key, "Ymd", DayOf(now)) = spark_requests_per_day
    /\ CounterAt(store, rateRet.api_key, "mc_Ymd", DayOf(now)) = 1
    /\ CounterAt(store, rateRet.api_key, "YmdHM", MinuteOf(now)) = 2

\* C29: in every SimulationResult penetration_depth_1e <= penetration_depth_1e2
\* <= z_max, and both depths are 0 when the surface bin holds no fluence
C29_DepthsOrdered ==
    result.returned =>
        /\ result.penetration_depth_1e <= result.penetration_depth_1e2
        /\ result.penetration_depth_1e2 <= z_max
        /\ ~(result.fluence_z[1] > 0) =>
              /\ result.penetration_depth_1e = 0
              /\ result.penetration_depth_1e2 = 0

\* a profile that falls below 1/e in the second bin and below 1/e^2 only in
\* the third: the two depths differ and both lie inside the scored range
C29_Witness ==
    /\ result.returned
    /\ result.fluence_z[1] > 0
    /\ 0 < result.penetration_depth_1e
    /\ result.penetration_depth_1e < result.penetration_depth_1e2
    /\ result.penetration_depth_1e2 < z_max

\* a <= b of two floats: False when one of them is nan
FloatLeq(a, b) == a # NaN /\ b # NaN /\ a <= b

\* the sum over the radial bins of fluence_rz[*, iz] for the depth bin iz
RingSum(iz) == ProfileTotal([ j \in 1..n_r |-> fluence_rz[j][iz] ], n_r)

\* C30: before normalisation, the radius-depth bins of every depth bin sum to
\* at most the depth bin, and the depth bins sum to at most the total
\* absorbed weight
C30_BinsWithinAbsorbed ==
    pc \in { "run", "done" } =>
        /\ \A iz \in 1..n_z : FloatLeq(RingSum(iz), fluence_z[iz])
        /\ FloatLeq(ProfileTotal(fluence_z, n_z), total_absorbed)

\* the same on runs whose absorbed total is a number
C30_BinsWithinAbsorbedNumber ==
    (pc \in { "run", "done" } /\ total_absorbed # NaN) =>
        /\ \A iz \in 1..n_z : FloatLeq(RingSum(iz), fluence_z[iz])
        /\ FloatLeq(ProfileTotal(fluence_z, n_z), total_absorbed)
====
